---- MODULE Spec2Model ----
(***************************************************************************)
(* Deferred next-tick dispatch of ElectronBindings                         *)
(* (shell/common/api/electron_bindings.cc).                                *)
(*                                                                         *)
(* ActivateUVLoop appends a node::Environment to the std::list             *)
(* pending_next_ticks_ unless std::find locates it, and then calls         *)
(* uv_async_send.  OnCallNextTick, run by the uv loop when the async       *)
(* handle is pending, walks the list with a list iterator, opens an        *)
(* InternalCallbackScope for every element (script runs when the scope     *)
(* closes and may call back into ActivateUVLoop or cause                   *)
(* EnvironmentDestroyed), and finally clears the list.                     *)
(*                                                                         *)
(* The list is a sequence of contexts; the list iterator is an index `it`  *)
(* together with `it_valid`, which is FALSE once the node it points at     *)
(* has been erased (a dangling iterator).                                  *)
(***************************************************************************)
EXTENDS Integers, Sequences, FiniteSets, TLC

\* ---- bounds -------------------------------------------------------------
NumContexts == 3
MaxReentrant == 2
NumWorkers == 1

Contexts == 1..NumContexts
Workers == 1..NumWorkers

\* the calls of one promise-returning function that a run follows
NumCalls == 2
Calls == 1..NumCalls

\* base::GetCurrentProcId(), and the process ids a memory dump may list:
\* this process and another one
CurrentProcId == 1
Pids == {CurrentProcId, CurrentProcId + 1}

\* global_dump->process_dumps(): the pid of each entry, in order
MaxDumps == 2
Dumps == UNION {[1..n -> Pids] : n \in 0..MaxDumps}

\* the error strings the platform may report to OnOpenExternalFinished
Errors == {"", "Failed to open"}

\* a promise that has not been created yet.  `settled` counts the calls that
\* settle the promise; `callback` tells that a once-callback holding the
\* promise is outstanding.
NoPromise == [state |-> "none", message |-> "", settled |-> 0, callback |-> FALSE]

\* util::Promise<T> promise(isolate)
NewPromise == [state |-> "pending", message |-> "", settled |-> 0, callback |-> FALSE]

\* promise.Resolve(...): the first settlement decides the state
Resolve(promise) ==
  [promise EXCEPT !.state = IF @ = "pending" THEN "resolved" ELSE @,
                  !.settled = @ + 1]

\* promise.RejectWithErrorMessage(msg)
RejectWithErrorMessage(promise, msg) ==
  [promise EXCEPT !.state = IF @ = "pending" THEN "rejected" ELSE @,
                  !.message = IF promise.state = "pending" THEN msg ELSE @,
                  !.settled = @ + 1]

VARIABLES
  pending_next_ticks_,   \* std::list<node::Environment*>
  call_next_tick_async_, \* uv_async_t: TRUE while a wake is outstanding
  closed,                \* uv_close has been called on the handle
  pc,                    \* loop thread: "idle", "scope", "clear", "crashed"
  it,                    \* the list iterator of OnCallNextTick (an index)
  it_valid,              \* FALSE when the node of `it` has been erased
  stale,                 \* erased nodes that the link of a dangling `it` leads through
  wpc,                   \* worker thread position inside ActivateUVLoop
  wenv,                  \* the env a worker thread is registering
  entry,                 \* history: the list when the drain was entered
  visited,               \* history: contexts visited by the drain, in order
  signals,               \* history: uv_async_send calls for a context since it became pending
  want,                  \* history: registered, and no scope closed or unregistered since
  selfReg,               \* history: registered again inside their own callback
  unregDuring,           \* history: unregistered since the drain was entered
  reentrant,             \* history: calls made from inside callback scopes of the drain
  erased,                \* history: erased by EnvironmentDestroyed, ActivateUVLoop not called since
  destructed,            \* history: ~ElectronBindings has run
  recording,             \* whether the run keeps the four histories below
  cycle,                 \* history: contexts in the order of their first ActivateUVLoop call since the last return
  cycleErased,           \* history: erased between two drains, since the last return
  dupCall,               \* history: ActivateUVLoop was called again for a context of `cycle`
  rereg,                 \* history: the context last registered again after its erasure between two drains (0: none)
  memoryInfo,            \* the promises of the GetProcessMemoryInfo calls
  openExternal           \* the promises of the shell.openExternal calls

vars == <<pending_next_ticks_, call_next_tick_async_, closed, pc, it, it_valid,
          stale, wpc, wenv, entry, visited, signals, want, selfReg, unregDuring,
          reentrant, erased, destructed, recording, cycle, cycleErased, dupCall,
          rereg, memoryInfo, openExternal>>

\* the histories of the registrations made between two drains
cycleVars == <<recording, cycle, cycleErased, dupCall, rereg>>

\* the state of the next-tick dispatch
tickVars == <<pending_next_ticks_, call_next_tick_async_, closed, pc, it, it_valid,
              stale, wpc, wenv, entry, visited, signals, want, selfReg,
              unregDuring, reentrant, erased, destructed, cycleVars>>

\* the state of the promises handed to script
promiseVars == <<memoryInfo, openExternal>>

\* ---- std::list / std::find ------------------------------------------------
Range(list) == {list[i] : i \in 1..Len(list)}

\* list.end() as an index
End(list) == Len(list) + 1

\* a find that looks at the first element only
FindFirstOnly(list, env) ==
  IF Len(list) > 0 /\ list[1] = env THEN 1 ELSE End(list)

\* std::find(begin, end, env): the first position holding env, or end()
Find(list, env) ==
  IF \E i \in 1..Len(list) : list[i] = env
    THEN CHOOSE i \in 1..Len(list) :
           list[i] = env /\ \A j \in 1..(i - 1) : list[j] # env
    ELSE End(list)

\* an erase that is off by one: it removes the element before pos
ErasePrev(list, pos) ==
  IF pos = 1 THEN list
  ELSE [i \in 1..(Len(list) - 1) |-> IF i < pos - 1 THEN list[i] ELSE list[i + 1]]

\* an erase of the range [pos, end()) instead of the one element
EraseToEnd(list, pos) == SubSeq(list, 1, pos - 1)

\* list.erase(pos)
Erase(list, pos) ==
  [i \in 1..(Len(list) - 1) |-> IF i < pos THEN list[i] ELSE list[i + 1]]

\* an insertion at the front of the list
PushFront(list, env) == <<env>> \o list

\* an insertion that keeps the list ordered by context, as a std::set would
PushSorted(list, env) ==
  LET Before(x) == x < env
      After(x) == x > env
  IN  SelectSeq(list, Before) \o <<env>> \o SelectSeq(list, After)

\* list.push_back(env)
PushBack(list, env) == Append(list, env)

\* uv_async_send: marks the handle pending; sends coalesce
AsyncSend(flag) == TRUE

\* the state after the constructor, but for `recording`
Constructed ==
  /\ pending_next_ticks_ = <<>>
  /\ call_next_tick_async_ = FALSE
  /\ closed = FALSE
  /\ pc = "idle"
  /\ it = 0
  /\ it_valid = TRUE
  /\ stale = <<>>
  /\ wpc = [w \in Workers |-> "idle"]
  /\ wenv = [w \in Workers |-> 0]
  /\ entry = <<>>
  /\ visited = <<>>
  /\ signals = [c \in Contexts |-> 0]
  /\ want = {}
  /\ selfReg = {}
  /\ unregDuring = {}
  /\ reentrant = 0
  /\ erased = {}
  /\ destructed = FALSE
  /\ cycle = <<>>
  /\ cycleErased = {}
  /\ dupCall = FALSE
  /\ rereg = 0
  /\ memoryInfo = [p \in Calls |-> NoPromise]
  /\ openExternal = [p \in Calls |-> NoPromise]

Init == Constructed /\ recording = FALSE

\* the same start, for the runs that keep the histories of the registrations
\* made between two drains
InitRecording == Constructed /\ recording = TRUE

\* ---- the loop thread ------------------------------------------------------
\* the env of the InternalCallbackScope that is open (pc = "scope")
cur == visited[Len(visited)]

\* Script may call into the bindings from the loop thread between two loop
\* callbacks, or from inside the callback scope that OnCallNextTick opened.
\* MaxReentrant bounds the calls made from inside the scopes of one drain.
LoopThreadMayCall ==
  /\ ~closed
  /\ \/ pc = "idle" /\ reentrant' = reentrant
     \/ pc = "scope" /\ reentrant < MaxReentrant /\ reentrant' = reentrant + 1

\* history kept by every registration call for env
NoteRegistration(env, inScope) ==
  /\ want' = want \cup {env}
  /\ erased' = erased \ {env}
  /\ selfReg' = IF inScope /\ cur = env THEN selfReg \cup {env} ELSE selfReg
  /\ IF pc = "idle" /\ recording
       THEN /\ cycle' = IF cycleErased # {} THEN <<>>
                        ELSE IF env \in Range(cycle) THEN cycle
                        ELSE Append(cycle, env)
            /\ dupCall' = (dupCall \/ (cycleErased = {} /\ env \in Range(cycle)))
            /\ rereg' = IF env \in cycleErased THEN env ELSE rereg
       ELSE UNCHANGED <<cycle, dupCall, rereg>>
  /\ UNCHANGED <<recording, cycleErased>>

\* an ActivateUVLoop that calls uv_async_send before it looks for env
ActivateUVLoopSendFirst(env) ==
  /\ LoopThreadMayCall
  /\ NoteRegistration(env, pc = "scope")
  /\ call_next_tick_async_' = AsyncSend(call_next_tick_async_)
  /\ signals' = [signals EXCEPT ![env] = @ + 1]
  /\ IF Find(pending_next_ticks_, env) # End(pending_next_ticks_)
       THEN UNCHANGED pending_next_ticks_
       ELSE pending_next_ticks_' = PushBack(pending_next_ticks_, env)
  /\ UNCHANGED <<closed, pc, it, it_valid, stale, wpc, wenv, entry, visited,
                 unregDuring, destructed, promiseVars>>

\* ElectronBindings::ActivateUVLoop on the loop thread
ActivateUVLoop(env) ==
  /\ LoopThreadMayCall
  /\ NoteRegistration(env, pc = "scope")
  /\ IF Find(pending_next_ticks_, env) # End(pending_next_ticks_)
       THEN UNCHANGED <<pending_next_ticks_, call_next_tick_async_, signals, it,
                        it_valid, stale>>
       ELSE /\ pending_next_ticks_' = PushBack(pending_next_ticks_, env)
            /\ call_next_tick_async_' = AsyncSend(call_next_tick_async_)
            /\ signals' = [signals EXCEPT ![env] = @ + 1]
            \* a dangling iterator: the allocator may hand the erased node's
            \* memory to the new node, and the iterator then points at it
            /\ \/ UNCHANGED <<it, it_valid, stale>>
               \/ /\ pc = "scope" /\ ~it_valid
                  /\ it' = Len(pending_next_ticks_) + 1
                  /\ it_valid' = TRUE
                  /\ stale' = <<>>
  /\ UNCHANGED <<closed, pc, wpc, wenv, entry, visited, unregDuring, destructed,
                 promiseVars>>

\* ElectronBindings::EnvironmentDestroyed (loop thread only)
EnvironmentDestroyed(env) ==
  /\ LoopThreadMayCall
  /\ want' = want \ {env}
  /\ selfReg' = selfReg \ {env}
  /\ unregDuring' = IF pc = "scope" THEN unregDuring \cup {env} ELSE unregDuring
  /\ LET pos == Find(pending_next_ticks_, env) IN
       IF pos # End(pending_next_ticks_)
         THEN /\ pending_next_ticks_' = Erase(pending_next_ticks_, pos)
              /\ signals' = IF env \in Range(pending_next_ticks_')
                              THEN signals ELSE [signals EXCEPT ![env] = 0]
              /\ erased' = erased \cup {env}
              \* erasing the node of `it` leaves `it` dangling, its link leading
              \* to the successor (now at index `it`); erasing that successor
              \* too leaves the link leading to an erased node
              /\ IF pc = "scope"
                   THEN /\ it' = IF pos < it THEN it - 1 ELSE it
                        /\ it_valid' = IF pos = it THEN FALSE ELSE it_valid
                        /\ stale' = IF pos = it /\ ~it_valid
                                       THEN Append(stale, env) ELSE stale
                   ELSE UNCHANGED <<it, it_valid, stale>>
         ELSE UNCHANGED <<pending_next_ticks_, signals, erased, it, it_valid, stale>>
  /\ IF pc = "idle" /\ recording
        /\ Find(pending_next_ticks_, env) # End(pending_next_ticks_)
       THEN /\ cycleErased' = cycleErased \cup {env}
            /\ cycle' = <<>>
            /\ dupCall' = FALSE
            /\ rereg' = IF rereg = env THEN 0 ELSE rereg
            /\ UNCHANGED recording
       ELSE UNCHANGED cycleVars
  /\ UNCHANGED <<call_next_tick_async_, closed, pc, wpc, wenv, entry, visited,
                 destructed, promiseVars>>

\* the loop test `it != end()` at position n, and the loop body up to the
\* point where the callback scope is open
LoopTest(n) ==
  IF n # End(pending_next_ticks_)
    THEN /\ pc' = "scope"
         /\ it' = n
         /\ it_valid' = TRUE
         /\ stale' = <<>>
         /\ visited' = Append(visited, pending_next_ticks_[n])
    ELSE /\ pc' = "clear"
         /\ it' = 0
         /\ it_valid' = TRUE
         /\ stale' = <<>>
         /\ UNCHANGED visited

\* an OnCallNextTick whose loop runs its body before the first test (do-while):
\* on an empty list it dereferences end()
OnCallNextTickNoTest ==
  /\ pc = "idle" /\ ~closed /\ call_next_tick_async_
  /\ call_next_tick_async_' = FALSE
  /\ entry' = pending_next_ticks_
  /\ selfReg' = {} /\ unregDuring' = {} /\ reentrant' = 0
  /\ IF 1 # End(pending_next_ticks_)
       THEN /\ pc' = "scope" /\ it' = 1 /\ it_valid' = TRUE
            /\ visited' = <<pending_next_ticks_[1]>>
       ELSE /\ pc' = "crashed" /\ it' = 0 /\ it_valid' = TRUE
            /\ visited' = <<>>
  /\ UNCHANGED <<pending_next_ticks_, closed, stale, wpc, wenv, signals, want,
                 erased, destructed, cycleVars, promiseVars>>

\* ElectronBindings::OnCallNextTick: the uv loop runs the async callback
OnCallNextTick ==
  /\ pc = "idle" /\ ~closed /\ call_next_tick_async_
  /\ call_next_tick_async_' = FALSE
  /\ entry' = pending_next_ticks_
  /\ selfReg' = {} /\ unregDuring' = {} /\ reentrant' = 0
  /\ IF 1 # End(pending_next_ticks_)
       THEN /\ pc' = "scope" /\ it' = 1 /\ it_valid' = TRUE
            /\ visited' = <<pending_next_ticks_[1]>>
       ELSE /\ pc' = "clear" /\ it' = 0 /\ it_valid' = TRUE
            /\ visited' = <<>>
  /\ UNCHANGED <<pending_next_ticks_, closed, stale, wpc, wenv, signals, want,
                 erased, destructed, cycleVars, promiseVars>>

\* the loop body run on an erased node that the link of a dangling iterator
\* led to: the scope is opened for the env the erased node held
StaleVisit ==
  /\ pc' = "scope"
  /\ visited' = Append(visited, Head(stale))
  /\ stale' = Tail(stale)
  /\ UNCHANGED <<it, it_valid>>

\* the callback scope closes (the scope has then run everything queued for
\* its env), ++it, and the loop test.  Incrementing a dangling iterator is
\* undefined: the build either faults or follows the link the erased node
\* held, to its successor in the list or to an erased node.
ScopeExit ==
  /\ pc = "scope"
  /\ IF it_valid
       THEN LoopTest(it + 1) /\ want' = want \ {cur}
       ELSE \/ stale = <<>> /\ LoopTest(it) /\ want' = want \ {cur}
            \/ stale # <<>> /\ StaleVisit /\ want' = want \ {cur}
            \/ /\ pc' = "crashed"
               /\ UNCHANGED <<it, it_valid, stale, visited, want>>
  /\ UNCHANGED <<pending_next_ticks_, call_next_tick_async_, closed, wpc, wenv,
                 entry, signals, selfReg, unregDuring, reentrant, erased,
                 destructed, cycleVars, promiseVars>>

\* a return that pops the front element instead of clearing the list
ClearFront ==
  /\ pc = "clear"
  /\ pending_next_ticks_' =
       IF pending_next_ticks_ = <<>> THEN <<>> ELSE Tail(pending_next_ticks_)
  /\ signals' = [c \in Contexts |->
                  IF c \in Range(pending_next_ticks_') THEN signals[c] ELSE 0]
  /\ pc' = "idle"
  /\ entry' = <<>> /\ visited' = <<>> /\ selfReg' = {} /\ unregDuring' = {}
  /\ reentrant' = 0
  /\ cycle' = <<>> /\ cycleErased' = {} /\ dupCall' = FALSE /\ rereg' = 0
  /\ UNCHANGED <<call_next_tick_async_, closed, it, it_valid, stale, wpc, wenv,
                 want, erased, destructed, recording, promiseVars>>

\* pending_next_ticks_.clear() and the return of OnCallNextTick
Clear ==
  /\ pc = "clear"
  /\ pending_next_ticks_' = <<>>
  /\ signals' = [c \in Contexts |-> 0]
  /\ pc' = "idle"
  /\ entry' = <<>> /\ visited' = <<>> /\ selfReg' = {} /\ unregDuring' = {}
  /\ reentrant' = 0
  /\ cycle' = <<>> /\ cycleErased' = {} /\ dupCall' = FALSE /\ rereg' = 0
  /\ UNCHANGED <<call_next_tick_async_, closed, it, it_valid, stale, wpc, wenv,
                 want, erased, destructed, recording, promiseVars>>

\* a destructor that leaves the async handle open
DestructorNoClose ==
  /\ pc = "idle" /\ ~destructed
  /\ \A w \in Workers : wpc[w] = "idle"
  /\ destructed' = TRUE
  /\ UNCHANGED <<pending_next_ticks_, call_next_tick_async_, closed, pc, it,
                 it_valid, stale, wpc, wenv, entry, visited, signals, want, selfReg,
                 unregDuring, reentrant, erased, cycleVars, promiseVars>>

\* ElectronBindings::~ElectronBindings
Destructor ==
  /\ pc = "idle" /\ ~closed
  /\ \A w \in Workers : wpc[w] = "idle"
  /\ closed' = TRUE
  /\ destructed' = TRUE
  /\ UNCHANGED <<pending_next_ticks_, call_next_tick_async_, pc, it, it_valid,
                 stale, wpc, wenv, entry, visited, signals, want, selfReg, unregDuring,
                 reentrant, erased, cycleVars, promiseVars>>

\* ---- ActivateUVLoop called on another thread ------------------------------
\* The function takes no lock, so its statements interleave with the loop
\* thread and with each other: std::find, then push_back, then uv_async_send.
WorkerFind(w, env) ==
  /\ wpc[w] = "idle" /\ ~closed /\ pc # "crashed"
  /\ NoteRegistration(env, FALSE)
  /\ IF Find(pending_next_ticks_, env) # End(pending_next_ticks_)
       THEN UNCHANGED <<wpc, wenv>>
       ELSE /\ wpc' = [wpc EXCEPT ![w] = "push_back"]
            /\ wenv' = [wenv EXCEPT ![w] = env]
  /\ UNCHANGED <<pending_next_ticks_, call_next_tick_async_, closed, pc, it,
                 it_valid, stale, entry, visited, signals, unregDuring, reentrant,
                 destructed, promiseVars>>

WorkerPushBack(w) ==
  /\ wpc[w] = "push_back" /\ pc # "crashed"
  /\ pending_next_ticks_' = PushBack(pending_next_ticks_, wenv[w])
  /\ wpc' = [wpc EXCEPT ![w] = "uv_async_send"]
  /\ UNCHANGED <<call_next_tick_async_, closed, pc, it, it_valid, stale, wenv, entry,
                 visited, signals, want, selfReg, unregDuring, reentrant,
                 erased, destructed, cycleVars, promiseVars>>

WorkerAsyncSend(w) ==
  /\ wpc[w] = "uv_async_send" /\ pc # "crashed"
  /\ call_next_tick_async_' = AsyncSend(call_next_tick_async_)
  /\ signals' = IF wenv[w] \in Range(pending_next_ticks_)
                  THEN [signals EXCEPT ![wenv[w]] = @ + 1] ELSE signals
  /\ wpc' = [wpc EXCEPT ![w] = "idle"]
  /\ wenv' = [wenv EXCEPT ![w] = 0]
  /\ UNCHANGED <<pending_next_ticks_, closed, pc, it, it_valid, stale, entry, visited,
                 want, selfReg, unregDuring, reentrant, erased, destructed,
                 cycleVars, promiseVars>>

\* ---- process.getProcessMemoryInfo -----------------------------------------
\* ElectronBindings::GetProcessMemoryInfo, call p, in a browser process or
\* not, with the app ready or not
GetProcessMemoryInfo(p, browser, ready) ==
  /\ memoryInfo[p].state = "none"
  /\ memoryInfo' = [memoryInfo EXCEPT ![p] =
       IF browser /\ ~ready
         THEN RejectWithErrorMessage(NewPromise,
                "Memory Info is available only after app ready")
         \* RequestGlobalDumpForPid takes the once-callback with the promise
         ELSE [NewPromise EXCEPT !.callback = TRUE]]
  /\ UNCHANGED <<tickVars, openExternal>>

RECURSIVE ScanDumpsNoBreak(_, _, _)
\* a scan that goes on after the entry of this process was found
ScanDumpsNoBreak(promise, dumps, i) ==
  IF i > Len(dumps) THEN <<promise, FALSE>>
  ELSE LET rest == ScanDumpsNoBreak(
                     IF dumps[i] = CurrentProcId THEN Resolve(promise) ELSE promise,
                     dumps, i + 1)
       IN  <<rest[1], rest[2] \/ dumps[i] = CurrentProcId>>

RECURSIVE ScanDumps(_, _, _)
\* the for loop over process_dumps() from entry i on: the promise afterwards,
\* and the value of `resolved`
ScanDumps(promise, dumps, i) ==
  IF i > Len(dumps) THEN <<promise, FALSE>>
  ELSE IF dumps[i] = CurrentProcId THEN <<Resolve(promise), TRUE>>
  ELSE ScanDumps(promise, dumps, i + 1)

\* ElectronBindings::DidReceiveMemoryDump: the dump callback of call p runs
DidReceiveMemoryDump(p, success, dumps) ==
  /\ memoryInfo[p].callback
  /\ LET promise == [memoryInfo[p] EXCEPT !.callback = FALSE]
         scan == ScanDumps(promise, dumps, 1)
     IN  memoryInfo' = [memoryInfo EXCEPT ![p] =
           IF ~success
             THEN RejectWithErrorMessage(promise, "Failed to create memory dump")
             ELSE IF ~scan[2]
               THEN RejectWithErrorMessage(scan[1],
                      "Failed to find current process memory details in memory dump")
               ELSE scan[1]]
  /\ UNCHANGED <<tickVars, openExternal>>

\* ---- shell.openExternal ----------------------------------------------------
\* platform_util::OpenExternal(url, options, callback): the platform keeps the
\* callback and runs it once, after the call has returned
PlatformOpenExternal(promise) == [promise EXCEPT !.callback = TRUE]

\* OpenExternal of atom_api_shell.cc, call p
OpenExternal(p) ==
  /\ openExternal[p].state = "none"
  /\ openExternal' = [openExternal EXCEPT ![p] = PlatformOpenExternal(NewPromise)]
  /\ UNCHANGED <<tickVars, memoryInfo>>

\* a completion handler with the two branches exchanged
OnOpenExternalFinishedSwapped(p, error) ==
  /\ openExternal[p].callback
  /\ LET promise == [openExternal[p] EXCEPT !.callback = FALSE]
     IN  openExternal' = [openExternal EXCEPT ![p] =
           IF error # "" THEN Resolve(promise)
           ELSE RejectWithErrorMessage(promise, error)]
  /\ UNCHANGED <<tickVars, memoryInfo>>

\* OnOpenExternalFinished: the platform runs the completion callback of call p
OnOpenExternalFinished(p, error) ==
  /\ openExternal[p].callback
  /\ LET promise == [openExternal[p] EXCEPT !.callback = FALSE]
     IN  openExternal' = [openExternal EXCEPT ![p] =
           IF error = "" THEN Resolve(promise)
           ELSE RejectWithErrorMessage(promise, error)]
  /\ UNCHANGED <<tickVars, memoryInfo>>

\* ---- specifications -------------------------------------------------------
\* every call on the loop thread
Next ==
  \/ \E env \in Contexts : ActivateUVLoop(env)
  \/ \E env \in Contexts : EnvironmentDestroyed(env)
  \/ OnCallNextTick
  \/ ScopeExit
  \/ Clear
  \/ Destructor

Spec == Init /\ [][Next]_vars

\* ActivateUVLoop also called from other threads
NextMT ==
  \/ Next
  \/ \E w \in Workers, env \in Contexts : WorkerFind(w, env)
  \/ \E w \in Workers : WorkerPushBack(w)
  \/ \E w \in Workers : WorkerAsyncSend(w)

SpecMT == Init /\ [][NextMT]_vars

\* the loop thread's calls, with the histories of each cycle kept
SpecRecording == InitRecording /\ [][Next]_vars

\* the promise-returning functions and their completion callbacks
NextPromise ==
  \/ \E p \in Calls, browser \in BOOLEAN, ready \in BOOLEAN :
       GetProcessMemoryInfo(p, browser, ready)
  \/ \E p \in Calls, success \in BOOLEAN, dumps \in Dumps :
       DidReceiveMemoryDump(p, success, dumps)
  \/ \E p \in Calls : OpenExternal(p)
  \/ \E p \in Calls, error \in Errors : OnOpenExternalFinished(p, error)

SpecPromise == Init /\ [][NextPromise]_vars

\* ---- properties -----------------------------------------------------------
Count(list, env) == Cardinality({i \in 1..Len(list) : list[i] = env})

Without(list, env) == LET Keep(x) == x # env IN SelectSeq(list, Keep)

\* the step that opens the callback scope of one more context
Visits(env) ==
  /\ Len(visited') = Len(visited) + 1
  /\ visited'[Len(visited')] = env

\* the step on which OnCallNextTick returns
Returns == pc = "clear" /\ pc' = "idle"

\* C1: with every call made on the loop thread, no context is in
\* pending_next_ticks_ twice, in any reachable state.
C1_AtMostOnce ==
  \A i, j \in 1..Len(pending_next_ticks_) :
    i # j => pending_next_ticks_[i] # pending_next_ticks_[j]

\* a context was registered again while pending, and the list holds several
C1_Witness ==
  /\ pc = "scope"
  /\ Len(pending_next_ticks_) >= 2
  /\ \E env \in selfReg \ unregDuring :
       env \in Range(entry) /\ env \in Range(pending_next_ticks_)

\* C2: a context that registers itself from inside its own callback is not
\* visited again by the drain that is running, and when that drain returns it
\* is pending with a wake outstanding.
C2_ReentrantNotLost ==
  [][/\ \A env \in selfReg : ~Visits(env)
     /\ Returns => \A env \in selfReg :
                     /\ env \in Range(pending_next_ticks_')
                     /\ call_next_tick_async_']_vars

\* C3: a context that was not pending when the drain began and is registered
\* while it runs is visited in a fresh cycle: the drain that is running opens
\* no scope for a context that was not in the list when it began.
C3_LateRegistrationFreshCycle ==
  [][\A env \in Contexts \ Range(entry) : pc # "idle" => ~Visits(env)]_vars

\* C4: when the visiting loop of a drain has ended, the contexts that were
\* pending at entry and were not unregistered during the drain have been
\* visited once each, in the order they had in the list at entry.
C4_EntryVisitedOnceInOrder ==
  pc = "clear" =>
    LET Kept(x) == x \in Range(entry) /\ x \notin unregDuring
    IN  SelectSeq(visited, Kept) = SelectSeq(entry, Kept)

\* C5: ActivateUVLoop(env) appends env and sends one signal when env is not
\* pending, and changes neither the list nor the signals when env is pending;
\* no context has more than one signal sent for it while it is pending.
C5_SignalIffAppended ==
  [][\A env \in Contexts : ActivateUVLoop(env) =>
       /\ env \notin Range(pending_next_ticks_) =>
            /\ pending_next_ticks_' = Append(pending_next_ticks_, env)
            /\ signals'[env] = signals[env] + 1
            /\ call_next_tick_async_'
       /\ env \in Range(pending_next_ticks_) =>
            /\ pending_next_ticks_' = pending_next_ticks_
            /\ signals' = signals
            /\ call_next_tick_async_' = call_next_tick_async_
       /\ \A c \in Contexts : signals'[c] <= 1]_vars

\* a context pending since before the drain has called ActivateUVLoop from its
\* own scope: it is in the list once, one signal was sent for it, and the wake
\* that started the drain has not been followed by another
C5_Witness ==
  \E env \in selfReg \ unregDuring :
    /\ env \in Range(entry)
    /\ Count(pending_next_ticks_, env) = 1
    /\ signals[env] = 1
    /\ ~call_next_tick_async_

\* C6: on the step on which OnCallNextTick returns the list becomes empty.
C6_EmptyOnReturn ==
  [][Returns => pending_next_ticks_' = <<>>]_vars

\* a drain has returned that dropped a registration made while it ran
C6_Witness ==
  /\ pc = "idle"
  /\ pending_next_ticks_ = <<>>
  /\ want # {}
  /\ call_next_tick_async_

\* C7: with ActivateUVLoop also called from other threads, the list still holds
\* no context twice.
C7_ConcurrentAtMostOnce ==
  \A env \in Contexts : Count(pending_next_ticks_, env) <= 1

\* C8: EnvironmentDestroyed(env) leaves env out of the list, and a drain that
\* begins after EnvironmentDestroyed erased a context opens no scope for it
\* unless ActivateUVLoop was called for it after the erasure.
C8_UnregisteredNotVisited ==
  [][/\ \A env \in Contexts :
          EnvironmentDestroyed(env) => env \notin Range(pending_next_ticks_')
     /\ \A env \in erased \ unregDuring : ~Visits(env)]_vars

\* a context was erased by EnvironmentDestroyed before the drain began, and
\* the visiting loop of the drain has ended with visits to others only
C8_Witness ==
  /\ pc = "clear"
  /\ visited # <<>>
  /\ \E env \in erased \ unregDuring :
       /\ env \notin Range(entry)
       /\ env \notin Range(visited)

\* C9: EnvironmentDestroyed(env) keeps the other entries and their order, and
\* changes neither the list nor the wake state when env is not pending.
C9_UnregisterFrame ==
  [][\A env \in Contexts : EnvironmentDestroyed(env) =>
       /\ Without(pending_next_ticks_', env) = Without(pending_next_ticks_, env)
       /\ env \notin Range(pending_next_ticks_) =>
            /\ pending_next_ticks_' = pending_next_ticks_
            /\ call_next_tick_async_' = call_next_tick_async_
            /\ signals' = signals]_vars

\* a context was unregistered from inside a scope and two others stay pending
C9_Witness ==
  /\ pc = "scope"
  /\ unregDuring \cap Range(entry) # {}
  /\ unregDuring \cap Range(pending_next_ticks_) = {}
  /\ Len(pending_next_ticks_) >= 2

\* C10: while the loop is idle and the bindings are alive, every context with
\* a registration that has not been visited or unregistered since is pending
\* and a wake is outstanding.
C10_RegisteredEventuallyVisited ==
  (pc = "idle" /\ ~closed) =>
    \A env \in want :
      env \in Range(pending_next_ticks_) /\ call_next_tick_async_

\* C11: between two drains with no context erased in between, the list is the
\* contexts in the order of their first ActivateUVLoop call since the last
\* return, with a wake outstanding when it is not empty (so after a return a
\* single registration of A gives the list [A] and a wake); a drain in which
\* script makes no call has visited exactly those contexts, in that order,
\* when its loop ends, and the return empties the list.
C11_FirstRegistrationOrder ==
  [][/\ (pc' = "idle" /\ cycleErased' = {} /\ recording') =>
          /\ pending_next_ticks_' = cycle'
          /\ cycle' # <<>> => call_next_tick_async_'
     /\ (pc' = "clear" /\ cycleErased' = {} /\ recording' /\ reentrant' = 0) =>
          visited' = cycle'
     /\ Returns => pending_next_ticks_' = <<>> /\ cycle' = <<>>]_vars

\* A, B, A were registered between two drains (a repeated call among them),
\* and the loop of the drain has ended with no call made from a scope
C11_Witness ==
  /\ recording /\ pc = "clear" /\ cycleErased = {} /\ reentrant = 0
  /\ dupCall
  /\ Len(cycle) >= 2
  /\ visited = cycle
  /\ ~call_next_tick_async_

\* C12: once the destructor has run, no step begins an OnCallNextTick or opens
\* a callback scope, whether or not a wake was outstanding or contexts were
\* pending when it ran.
C12_NoWakeAfterShutdown ==
  [][destructed => /\ ~(pc = "idle" /\ pc' # "idle")
                   /\ visited' = visited
                   /\ \A env \in Contexts : ~Visits(env)]_vars

\* the destructor ran with a wake outstanding and two contexts pending
C12_Witness ==
  /\ destructed /\ closed
  /\ call_next_tick_async_
  /\ Len(pending_next_ticks_) >= 2
  /\ pc = "idle"

\* C13: an OnCallNextTick that begins with the list empty opens no scope and
\* goes straight to the end of its loop, and the drain that began so has
\* visited nothing and returns to the idle loop with the list empty.
C13_EmptyWakeHarmless ==
  [][/\ (pc = "idle" /\ pc' # "idle" /\ pending_next_ticks_ = <<>>) =>
          /\ pc' = "clear"
          /\ visited' = <<>>
          /\ pending_next_ticks_' = <<>>
          /\ ~call_next_tick_async_'
     /\ (pc = "clear" /\ entry = <<>>) =>
          /\ visited = <<>>
          /\ pc' = "idle"
          /\ pending_next_ticks_' = <<>>]_vars

\* A was registered and then erased, the wake sent for A fired, and the loop
\* of that drain has ended with nothing visited
C13_Witness ==
  /\ pc = "clear"
  /\ entry = <<>>
  /\ visited = <<>>
  /\ pending_next_ticks_ = <<>>
  /\ erased # {}
  /\ want = {}

\* C14: an ActivateUVLoop call opens no callback scope itself, and every scope
\* is opened by a drain that began after the registration call for the visited
\* context had returned: the drain visits only contexts that were in the list
\* when it began.
C14_NeverSynchronous ==
  [][/\ \A env \in Contexts :
          ActivateUVLoop(env) => visited' = visited /\ pc' = pc
     /\ \A env \in Contexts :
          Visits(env) => /\ pc' = "scope"
                         /\ pc = "idle" \/ pc = "scope"
                         /\ env \in Range(entry')]_vars

\* C15: ActivateUVLoop for a context that was erased from the list since the
\* last return, called between two drains, puts it at the tail, behind every
\* context then pending; and when a drain opens the scope of a context of its
\* entry list, every context ahead of it in that list has been visited before
\* it or was unregistered during the drain.
C15_ReRegisteredAtTail ==
  [][/\ \A env \in cycleErased :
          (ActivateUVLoop(env) /\ pc = "idle"
             /\ env \notin Range(pending_next_ticks_)) =>
            /\ pending_next_ticks_' = Append(pending_next_ticks_, env)
            /\ call_next_tick_async_'
     /\ \A env \in Range(entry') :
          Visits(env) =>
            \A i \in 1..(Find(entry', env) - 1) :
              entry'[i] \in Range(visited) \cup unregDuring']_vars

\* a context was erased and registered again between two drains, after the
\* others; the drain that followed visited the others first and has now
\* opened its scope, the last of the entry list
C15_Witness ==
  /\ recording /\ pc = "scope"
  /\ rereg # 0
  /\ cur = rereg
  /\ reentrant = 0
  /\ Len(entry) >= 2
  /\ visited = entry

\* C16: with EnvironmentDestroyed called from inside callback scopes the drain
\* stays well-defined: it does not fault, it opens no scope for a context that
\* was erased and not registered since, and when its loop ends every context
\* of the entry list that was not unregistered during the drain has been
\* visited exactly once.
C16_UnregisterDuringDrain ==
  [][/\ pc' # "crashed"
     /\ \A env \in erased : ~Visits(env)
     /\ pc' = "clear" =>
          \A env \in Range(entry') \ unregDuring' : Count(visited', env) = 1]_vars

\* C17: GetProcessMemoryInfo rejects at once with "Memory Info is available
\* only after app ready", requesting no dump, when called in the browser
\* process before the app is ready, and otherwise returns a pending promise
\* with the dump requested; the dump callback rejects with "Failed to create
\* memory dump" when success is false, resolves when the dump has an entry
\* for the current process id, and rejects with "Failed to find current
\* process memory details in memory dump" when it has none; no promise is
\* settled more than once, and a settled promise does not change.
C17_MemoryInfoSettledOnce ==
  [][/\ \A p \in Calls, browser \in BOOLEAN, ready \in BOOLEAN :
          GetProcessMemoryInfo(p, browser, ready) =>
            IF browser /\ ~ready
              THEN /\ memoryInfo'[p].state = "rejected"
                   /\ memoryInfo'[p].message =
                        "Memory Info is available only after app ready"
                   /\ memoryInfo'[p].settled = 1
                   /\ ~memoryInfo'[p].callback
              ELSE /\ memoryInfo'[p].state = "pending"
                   /\ memoryInfo'[p].settled = 0
                   /\ memoryInfo'[p].callback
     /\ \A p \in Calls : memoryInfo[p].callback =>
         \A success \in BOOLEAN, dumps \in Dumps :
          DidReceiveMemoryDump(p, success, dumps) =>
            /\ memoryInfo'[p].settled = 1
            /\ ~memoryInfo'[p].callback
            /\ ~success =>
                 /\ memoryInfo'[p].state = "rejected"
                 /\ memoryInfo'[p].message = "Failed to create memory dump"
            /\ (success /\ CurrentProcId \in Range(dumps)) =>
                 memoryInfo'[p].state = "resolved"
            /\ (success /\ CurrentProcId \notin Range(dumps)) =>
                 /\ memoryInfo'[p].state = "rejected"
                 /\ memoryInfo'[p].message =
                      "Failed to find current process memory details in memory dump"
     /\ \A p \in Calls :
          /\ memoryInfo'[p].settled <= 1
          /\ memoryInfo[p].settled = 1 => memoryInfo'[p] = memoryInfo[p]]_vars

\* the dump callback has resolved one call and has rejected another, whose
\* dump had no entry for this process
C17_Witness ==
  \E p, q \in Calls :
    /\ memoryInfo[p].state = "resolved" /\ memoryInfo[p].settled = 1
    /\ memoryInfo[q].state = "rejected" /\ memoryInfo[q].settled = 1
    /\ memoryInfo[q].message = "Failed to find current process memory details in memory dump"

====
